---- MODULE Spec2Model ----
(***************************************************************************)
(* PhotoMosaic: the colour summary of catalog.py (colours) and the mosaic  *)
(* engine of mosaic.py (layout planning, findBestTile, placeBestTile,      *)
(* placeSpiral, compositing and save).                                     *)
(*                                                                         *)
(* Numbers.  Python ints are unbounded; every value of the model stays     *)
(* far below 2^31.  A Python float that is the quotient of two integers    *)
(* is held as that exact quotient: int(n/d) is int(n, d) and round(n/d)    *)
(* is round(n, d).  math.sqrt and the float sums of distance() are held    *)
(* in fixed point, see sqrt.                                               *)
(***************************************************************************)
EXTENDS Integers, Naturals, Sequences, FiniteSets, TLC

\* ------------------------------------------------------------------ bounds
\* largest image side given to colours()
MaxSide == 5
\* largest grid dimension dim given to colours()
MaxDim == 3
\* largest XD and YD given directly to placeSpiral
MaxGrid == 5
\* largest number of lines of the colour table
MaxTiles == 4
\* the largest width and height of the images compared by metric()
MaxMetricSide == 3
\* the largest number of files in the directory catalogued by catalog.main
MaxFiles == 2

\* ------------------------------------------------------- program constants
THUMB_SIZE == 840
DPI == 300
\* INCHES2MM = 25.4 is held as the fraction INCHES2MM_NUM / INCHES2MM_DEN
INCHES2MM_NUM == 254
INCHES2MM_DEN == 10
MOSAIC_ORIGINAL_TILE_INDEX == -1
MOSAIC_ORIGINAL_TILE_DISTANCE == 0
\* PIL's default Image.MAX_IMAGE_PIXELS, int(1024 * 1024 * 1024 // 4 // 3)
MY_MAX_IMAGE_PIXELS == 89478485

\* ------------------------------------------------------ Python arithmetic
\* int(n/d) for integers n, d > 0: truncation toward zero
int(n, d) == IF n >= 0 THEN n \div d ELSE -((-n) \div d)

\* round(n/d) for integers n, d > 0: Python 3 rounds half to even
round(n, d) ==
    LET q == n \div d
        r == n % d
    IN  IF 2 * r < d THEN q
        ELSE IF 2 * r > d THEN q + 1
        ELSE IF q % 2 = 0 THEN q ELSE q + 1

abs(a) == IF a < 0 THEN -a ELSE a

max(a, b) == IF a >= b THEN a ELSE b

\* ------------------------------------------------------------------ images
\* An RGB image: size = <<width, height>>, px[<<x, y>>] = <<r, g, b>>.
Black == <<0, 0, 0>>
White == <<255, 255, 255>>
Red   == <<255, 0, 0>>
Palette == <<Black, White, Red>>

\* im.getpixel((x, y))
getpixel(im, x, y) == im.px[<<x, y>>]

Pixels(w, h) == (0 .. w - 1) \X (0 .. h - 1)

\* The images the model feeds to the program: one of the palette colours
\* everywhere (pattern 0..2), vertical stripes (3), horizontal stripes (4),
\* and a diagonal pattern over the three colours (5).
PatternColour(p, x, y) ==
    CASE p \in 0 .. 2 -> Palette[p + 1]
      [] p = 3 -> Palette[(x % 2) + 1]
      [] p = 4 -> Palette[(y % 2) + 1]
      [] OTHER -> Palette[((x + 2 * y) % 3) + 1]

Patterns == 0 .. 5

MakeImage(p, w, h) ==
    [size |-> <<w, h>>,
     px   |-> [xy \in Pixels(w, h) |-> PatternColour(p, xy[1], xy[2])]]

\* ------------------------------------------------------ catalog.py colours
ZeroDivisionError == "ZeroDivisionError"

RECURSIVE SumChannel(_, _, _)
\* the sum of channel c over the pixels S of im
SumChannel(im, c, S) ==
    IF S = {} THEN 0
    ELSE LET xy == CHOOSE p \in S : TRUE
         IN  im.px[xy][c] + SumChannel(im, c, S \ {xy})

\* iOffset = int(x * width / dim), jOffset = int(y * height / dim)
iOffsetBad(x, width, dim) == x * int(width, dim)
iOffset(x, width, dim) == int(x * width, dim)

\* The pixels read by the two inner loops of colours() for the section of
\* the outer loop indices x, y: iLoc = i + iOffset, jLoc = j + jOffset for
\* i in range(int(width/dim)), j in range(int(height/dim)).
sectionPixels(im, dim, x, y) ==
    LET width  == im.size[1]
        height == im.size[2]
    IN  {<<i + iOffset(x, width, dim), j + iOffset(y, height, dim)>> :
            i \in 0 .. int(width, dim) - 1, j \in 0 .. int(height, dim) - 1}

\* colours(im, dim): section = x * dim + y holds the rounded mean of its
\* pixels; count is the number of pixels read for the section, and the
\* division by count = 0 raises ZeroDivisionError at the first section.
colours(im, dim) ==
    LET count == int(im.size[1], dim) * int(im.size[2], dim)
        val(c) == [s \in 1 .. dim * dim |->
                     round(SumChannel(im, c,
                              sectionPixels(im, dim, (s - 1) \div dim, (s - 1) % dim)),
                           count)]
    IN  IF count = 0 THEN ZeroDivisionError
        ELSE <<val(1), val(2), val(3)>>

\* ---------------------------------------------------- catalog.py: main
\* A line of the colour table file is held as the sequence of the words
\* that whitespace separates in it.  A file name is the sequence of the
\* words of its path: <<"my", "tile.png">> is the path `my tile.png`.

\* "{}".format(n) of an integer
format(n) == ToString(n)

\* the line written for one file: the name, then " r g b" for each p in
\* range(dim*dim), or ZeroDivisionError from colours()
writeLine(imagename, im, dim) ==
    LET c == colours(im, dim)
        field(k) == format(c[((k - 1) % 3) + 1][((k - 1) \div 3) + 1])
    IN  IF c = ZeroDivisionError THEN ZeroDivisionError
        ELSE imagename \o [k \in 1 .. 3 * dim * dim |-> field(k)]

RECURSIVE writeLines(_, _, _)
\* the loop over the files from the k-th on: the lines written until the
\* end or until colours() raises
writeLines(files, dim, k) ==
    IF k > Len(files) THEN [lines |-> <<>>, raised |-> ""]
    ELSE LET line == writeLine(files[k].name, MakeImage(files[k].pattern, 2, 2), dim)
             rest == writeLines(files, dim, k + 1)
         IN  IF line = ZeroDivisionError
             THEN [lines |-> <<>>, raised |-> ZeroDivisionError]
             ELSE [lines |-> <<line>> \o rest.lines, raised |-> rest.raised]

\* -------------------------------------------- mosaic.py: readcolourtable
IndexError == "IndexError"
ValueError == "ValueError"

\* int(word) succeeds on the decimal words
isDecimal(word) == \E n \in 0 .. 255 : format(n) = word
intOf(word) == CHOOSE n \in 0 .. 255 : format(n) = word

\* the first of cols[1] .. cols[3*dim*dim] (0-based) that is missing or is
\* not a decimal word, 0 when there is none; cols[0] is the name
firstBadField(cols, dim) ==
    LET bad == {k \in 1 .. 3 * dim * dim : k + 1 > Len(cols) \/ ~isDecimal(cols[k + 1])}
    IN  IF bad = {} THEN 0 ELSE CHOOSE k \in bad : \A j \in bad : k <= j

\* one pass of the `while line` loop: (name, colours) of the line
readLine(cols, dim) ==
    LET val(c) == [d \in 1 .. dim * dim |-> intOf(cols[1 + 3 * (d - 1) + c])]
    IN  <<<<cols[1]>>, <<val(1), val(2), val(3)>>>>

\* the exception raised in the pass for the line, "" when there is none
readLineError(cols, dim) ==
    LET k == firstBadField(cols, dim)
    IN  IF Len(cols) = 0 THEN IndexError
        ELSE IF k = 0 THEN ""
        ELSE IF k + 1 > Len(cols) THEN IndexError
        ELSE ValueError

RECURSIVE readFrom(_, _, _)
\* the `while line` loop from the k-th line on
readFrom(lines, dim, k) ==
    IF k > Len(lines) THEN [ctable |-> <<>>, raised |-> ""]
    ELSE IF readLineError(lines[k], dim) # ""
    THEN [ctable |-> <<>>, raised |-> readLineError(lines[k], dim)]
    ELSE LET rest == readFrom(lines, dim, k + 1)
         IN  [ctable |-> <<readLine(lines[k], dim)>> \o rest.ctable, raised |-> rest.raised]

\* readcolourtable(colourtablename, dim), colourtablename standing for the
\* lines of the file of that name
readcolourtable(colourtablename, dim) == readFrom(colourtablename, dim, 1)

\* --------------------------------------------------- mosaic.py: distance
\* Floats that come from math.sqrt are held in fixed point: one unit is
\* 1/(100 * FloatSub).  FloatSub is a multiple of dim*dim for every dim of
\* the model, so that dist / (dim*dim) is exact, as the float division is
\* to within rounding.
FloatSub == 36

RECURSIVE isqrtBetween(_, _, _)
\* the largest r in lo..hi with r*r <= n
isqrtBetween(n, lo, hi) ==
    IF lo = hi THEN lo
    ELSE LET mid == (lo + hi + 1) \div 2
         IN  IF mid * mid <= n THEN isqrtBetween(n, mid, hi)
             ELSE isqrtBetween(n, lo, mid - 1)

\* math.sqrt(n) for an integer 0 <= n <= 3 * 255^2, in fixed point
sqrt(n) == FloatSub * isqrtBetween(n * 10000, 0, 46340)

RECURSIVE distanceFrom(_, _, _, _, _, _, _, _)
\* the loop of distance() from index p on (sequences are 1-based)
distanceFrom(p, dim, r1, g1, b1, r2, g2, b2) ==
    IF p > dim * dim THEN 0
    ELSE LET reddist   == abs(r1[p] - r2[p])
             greendist == abs(g1[p] - g2[p])
             bluedist  == abs(b1[p] - b2[p])
             d == sqrt(reddist * reddist + greendist * greendist + bluedist * bluedist)
         IN  d + distanceFrom(p + 1, dim, r1, g1, b1, r2, g2, b2)

distanceSkipFirst(dim, r1, g1, b1, r2, g2, b2) == distanceFrom(2, dim, r1, g1, b1, r2, g2, b2)
distance(dim, r1, g1, b1, r2, g2, b2) == distanceFrom(1, dim, r1, g1, b1, r2, g2, b2)

\* ----------------------------------------------------- mosaic.py: metric
\* factor = math.sqrt(3 * 256*256)
factor == sqrt(3 * 256 * 256)

\* a normalised distance, and their average, are held in units of
\* 1/MetricScale
MetricScale == 1000

\* d = math.sqrt(rdist*rdist + gdist*gdist + bdist*bdist) of one pixel
pixelDistance(oImage, mImage, x, y) ==
    LET p1 == getpixel(oImage, x, y)
        p2 == getpixel(mImage, x, y)
        rdist == abs(p1[1] - p2[1])
        gdist == abs(p1[2] - p2[2])
        bdist == abs(p1[3] - p2[3])
    IN  sqrt(rdist * rdist + gdist * gdist + bdist * bdist)

\* normD = (d / factor)
normD(d) == (d * MetricScale) \div factor

RECURSIVE sumNormD(_, _, _)
\* dist after the two loops have passed the pixels S
sumNormD(oImage, mImage, S) ==
    IF S = {} THEN 0
    ELSE LET xy == CHOOSE p \in S : TRUE
             d  == pixelDistance(oImage, mImage, xy[1], xy[2])
         IN  (IF d = 0 THEN 0 ELSE normD(d)) + sumNormD(oImage, mImage, S \ {xy})

\* metric(original, mosaic): asserted is FALSE when one of its two asserts
\* fails, else avg = dist/cnt; original is resized to the size of mosaic
\* first
metric(original, mosaic) ==
    LET mWidth  == mosaic.size[1]
        mHeight == mosaic.size[2]
        oImage  == MakeImage(original.pattern, mWidth, mHeight)
        cnt     == mWidth * mHeight
    IN  IF ~(original.size[1] <= mWidth) \/ ~(original.size[2] <= mHeight)
        THEN [asserted |-> FALSE, avg |-> 0]
        ELSE [asserted |-> TRUE,
              avg |-> sumNormD(oImage, mosaic, Pixels(mWidth, mHeight)) \div cnt]

\* percent = (1 - metricAvg) * 100.0, in units of 1/MetricScale percent
percentOf(metricAvg) == (MetricScale - metricAvg) * 100

\* ----------------------------------------------- mosaic.py: findBestTile
\* The pixels of the original image compared at (row, col): entry
\* fx * dim + fy is the pixel (col*dim + fx, row*dim + fy).
samplePixelRowFirst(dim, row, col, k) == <<col * dim + (k % dim), row * dim + (k \div dim)>>
samplePixel(dim, row, col, k) == <<col * dim + (k \div dim), row * dim + (k % dim)>>

sample(inimage, dim, row, col) ==
    LET chan(c) == [k \in 1 .. dim * dim |->
                      LET xy == samplePixel(dim, row, col, k - 1)
                      IN  getpixel(inimage, xy[1], xy[2])[c]]
    IN  <<chan(1), chan(2), chan(3)>>

\* dist for colour table index i (0-based): the averaged distance
tileDistance(sig, table, dim, i) ==
    LET tcol == table[i + 1][2]
    IN  distance(dim, sig[1], sig[2], sig[3], tcol[1], tcol[2], tcol[3]) \div (dim * dim)

\* `if allowDups or i not in placedTiles`
isCandidateAny(allowDups, placedTiles, i) == TRUE
isCandidateUnused(allowDups, placedTiles, i) == i \notin placedTiles
isCandidate(allowDups, placedTiles, i) == allowDups \/ i \notin placedTiles

\* `if not found or dist < bestDistance`
betterLastWins(found, dist, bestDistance) == ~found \/ dist <= bestDistance
better(found, dist, bestDistance) == ~found \/ dist < bestDistance

RECURSIVE scanTable(_, _, _, _, _, _, _)
\* the loop over range(len(table)) from index i on, with the running
\* best = [found, bestTileIndex, bestDistance]
scanTable(i, best, sig, allowDups, placedTiles, table, dim) ==
    IF i >= Len(table) THEN best
    ELSE LET dist == tileDistance(sig, table, dim, i)
             next == IF isCandidate(allowDups, placedTiles, i)
                        /\ better(best.found, dist, best.bestDistance)
                     THEN [found |-> TRUE, bestTileIndex |-> i, bestDistance |-> dist]
                     ELSE best
         IN  scanTable(i + 1, next, sig, allowDups, placedTiles, table, dim)

\* findBestTile: [found, bestTileIndex, bestDistance]; `assert found` fails
\* when found is FALSE
findBestTileSkipFirst(inimage, allowDups, placedTiles, table, dim, row, col) == scanTable(1, [found |-> FALSE, bestTileIndex |-> -2, bestDistance |-> -1], sample(inimage, dim, row, col), allowDups, placedTiles, table, dim)
findBestTile(inimage, allowDups, placedTiles, table, dim, row, col) ==
    scanTable(0, [found |-> FALSE, bestTileIndex |-> -2, bestDistance |-> -1],
              sample(inimage, dim, row, col), allowDups, placedTiles, table, dim)

\* ------------------------------------------------- mosaic.py: the layout
AssertionError == "AssertionError"

\* pagesize = (canvas[0] - 2*margin, canvas[1] - 2*margin)
pagesize(canvas, margin) == <<canvas[1] - 2 * margin, canvas[2] - 2 * margin>>

\* `origRatio < outRatio` with origRatio = origX/origY and
\* outRatio = (pagesize[0]/tilemm) / (pagesize[1]/tilemm); tilemm, origY
\* and pagesize[1] are positive
narrowerFlipped(page, origSize) == origSize[1] * page[2] > page[1] * origSize[2]
narrower(page, origSize) == origSize[1] * page[2] < page[1] * origSize[2]

\* <<XD, YD>> of lines 470-479
tileCounts(page, tilemm, origSize) ==
    IF narrower(page, origSize)
    THEN <<int(page[2] * origSize[1], tilemm * origSize[2]), int(page[2], tilemm)>>
    ELSE <<int(page[1], tilemm), int(page[1] * origSize[2], tilemm * origSize[1])>>

\* targetTilesize = round(DPI * tilemm / INCHES2MM)
targetTilesize(tilemm) == round(DPI * tilemm * INCHES2MM_DEN, INCHES2MM_NUM)

\* tilesize after lines 488-497
firstTilesize(tilemm) ==
    IF targetTilesize(tilemm) < THUMB_SIZE THEN targetTilesize(tilemm) ELSE THUMB_SIZE

\* tilesize after the max image size check of lines 520-532
cappedTilesize(tilesize, xd, yd) ==
    IF tilesize * xd > MY_MAX_IMAGE_PIXELS \/ tilesize * yd > MY_MAX_IMAGE_PIXELS
    THEN IF tilesize * xd > tilesize * yd THEN int(MY_MAX_IMAGE_PIXELS, xd)
         ELSE int(MY_MAX_IMAGE_PIXELS, yd)
    ELSE tilesize

\* pixelIndent = int((2 * margin * DPI / INCHES2MM)); the actualw and
\* actualh computed from it are overwritten at lines 562-563
pixelIndent(margin) == int(2 * margin * DPI * INCHES2MM_DEN, INCHES2MM_NUM)

\* int(pixels * INCHES2MM / DPI)
pixels2mm(pixels) == int(pixels * INCHES2MM_NUM, DPI * INCHES2MM_DEN)

\* int(round(pixels * INCHES2MM / DPI))
pixels2mmRounded(pixels) == round(pixels * INCHES2MM_NUM, DPI * INCHES2MM_DEN)

\* checkFill(pagei, imagei, dpi) = (ibp, iep)
checkFillEven(pagei, imagei, dpi) ==
    LET idiff == pagei - imagei
        ib == int(idiff, 2)
        ie == IF idiff % 2 = 0 THEN 1 ELSE 0
    IN  <<round(ib * dpi * INCHES2MM_DEN, INCHES2MM_NUM),
          round(ie * dpi * INCHES2MM_DEN, INCHES2MM_NUM)>>

checkFill(pagei, imagei, dpi) ==
    LET idiff == pagei - imagei
        ib == int(idiff, 2)
        ie == IF idiff % 2 # 0 THEN 1 ELSE 0
    IN  <<round(ib * dpi * INCHES2MM_DEN, INCHES2MM_NUM),
          round(ie * dpi * INCHES2MM_DEN, INCHES2MM_NUM)>>

\* `if XD*YD > len(table) and not allowDups`
notEnoughImagesLate(xd, yd, n, dups) == xd * yd > n + 1 /\ ~dups
notEnoughImages(xd, yd, n, dups) == xd * yd > n /\ ~dups

\* newImage.resize((X, Y)): PIL resamples; the model keeps the pattern of
\* the image at the new size.  PIL raises ValueError for a size below 1.
resize(image, X, Y) == MakeImage(image.pattern, X, Y)

\* originalRow, originalCol of lines 585-589
originalCellBelow(rotated, xd, yd) == IF rotated THEN <<yd, xd - 1>> ELSE <<yd, 0>>
originalCell(rotated, xd, yd) == IF rotated THEN <<yd - 1, xd - 1>> ELSE <<yd - 1, 0>>

\* ---------------------------------- mosaic.py: placeBestTile, placeSpiral
\* tileLocations[(row, col)] = value
setLocationAlone(tileLocations, row, col, value) == [k \in {<<row, col>>} |-> value]
setLocation(tileLocations, row, col, value) ==
    [k \in DOMAIN tileLocations \cup {<<row, col>>} |->
        IF k = <<row, col>> THEN value ELSE tileLocations[k]]

\* placedTiles.add(bestTileIndex)
addPlacedForgotten(placedTiles, bestTileIndex) == placedTiles
addPlaced(placedTiles, bestTileIndex) == placedTiles \cup {bestTileIndex}

\* placeBestTile (lines 259-281): the original image goes to the cell
\* (originalRow, originalCol), the best tile of the colour table to any
\* other; found is FALSE when the `assert found` of findBestTile fails.
placeBestTile(originalRow, originalCol, inimage, allowDups, tileLocations, placedTiles, table, dim, row, col) ==
    IF row = originalRow /\ col = originalCol
    THEN [found |-> TRUE,
          tileLocations |-> setLocation(tileLocations, row, col,
              <<MOSAIC_ORIGINAL_TILE_INDEX, MOSAIC_ORIGINAL_TILE_DISTANCE>>),
          placedTiles |-> addPlaced(placedTiles, MOSAIC_ORIGINAL_TILE_INDEX)]
    ELSE LET best == findBestTile(inimage, allowDups, placedTiles, table, dim, row, col)
         IN  [found |-> best.found,
              tileLocations |-> setLocation(tileLocations, row, col,
                  <<best.bestTileIndex, best.bestDistance>>),
              placedTiles |-> addPlaced(placedTiles, best.bestTileIndex)]

\* range(max(XD, YD)**2)
spiralStepsArea(XD, YD) == XD * YD
spiralSteps(XD, YD) == max(XD, YD) * max(XD, YD)

\* `(-XD/2 < x <= XD/2) and (-YD/2 < y <= YD/2)`
inside(x, y, XD, YD) == (-XD < 2 * x /\ 2 * x <= XD) /\ (-YD < 2 * y /\ 2 * y <= YD)

\* `x == y or (x < 0 and x == -y) or (x > 0 and x == 1-y)`
turn(x, y) == x = y \/ (x < 0 /\ x = -y) \/ (x > 0 /\ x = 1 - y)

\* ic = int((XD-1)/2), jc = int((YD-1)/2)
centre(D) == int(D - 1, 2)

\* ------------------------------------------------------------------- state
VARIABLES
    \* the arguments of mosaic() (newImage = [size, pattern])
    canvas, margin, tilemm, newImage, rotated, table, dim, allowDups,
    \* the locals of mosaic() that hold the layout
    XD, YD, inimage, tilesize, bigwidth, bigheight, xmm, ymm,
    widthFill, heightFill, actualw, actualh, leftOffset, topOffset,
    actualxmm, actualymm, originalRow, originalCol,
    \* the locals of placeSpiral: loop index i, position and direction
    i, x, y, dx, dy, cnt,
    \* tileLocations: (row, col) -> (bestTileIndex, bestDistance); placedTiles
    tileLocations, placedTiles, nTilesUsed,
    \* history: the cells passed to placeBestTile, in order, and the last
    \* call of findBestTile (a sequence of at most one record)
    visited, lastMatch,
    \* the output image ("none", "blank", "tiled") and whether it was saved
    bigimage, saved,
    \* colours(im, dim): its image, its result, the pixels read per section
    im, summary, sections,
    \* distance(): its two signatures (r, g, b) and its results both ways
    sig1, sig2, dist12, dist21,
    \* metric(original, mosaic): its images and the percentage it prints
    original, mosaic, percent,
    \* catalog.main(directory, outfile, dim): the files of the directory,
    \* its dim, and the lines of the colour table file it writes
    directory, catdim, outfile,
    \* where the program is, and the exception that ended it
    pc, err

inputs == <<canvas, margin, tilemm, newImage, rotated, table, dim, allowDups>>
layout == <<XD, YD, inimage, tilesize, bigwidth, bigheight, xmm, ymm,
            widthFill, heightFill, actualw, actualh, leftOffset, topOffset,
            actualxmm, actualymm,
            originalRow, originalCol>>
walk == <<i, x, y, dx, dy, cnt>>
placement == <<tileLocations, placedTiles, nTilesUsed, visited, lastMatch>>
output == <<bigimage, saved>>
summarizer == <<im, summary, sections>>
measures == <<sig1, sig2, dist12, dist21, original, mosaic, percent>>
cataloguer == <<directory, catdim, outfile>>
vars == <<inputs, layout, walk, placement, output, summarizer, measures,
          cataloguer, pc, err>>

\* ------------------------------------------------------------ input sets
\* page sizes in mm (PAGE_SIZES, and small custom WxH pages)
PAGE_SIZES == {<<594, 841>>, <<841, 1189>>, <<707, 1000>>, <<1000, 1414>>}
\* custom pages asked for on the command line; __main__ hands on those
\* it does not reject with `if w > h`
CustomPages == {<<20, 20>>, <<20, 30>>, <<30, 40>>, <<30, 20>>}
SmallCanvases == {wh \in CustomPages : ~(wh[1] > wh[2])}
SmallMargins == {0, 5}
SmallTileMMs == {10, 20}
\* sizes of the (portrait or square) image being mosaicked; the last is
\* larger than the mosaics of the smaller grids
SourceSizes == {<<1, 1>>, <<2, 3>>, <<1, 3>>, <<300, 400>>}
SourcePatterns == {3, 5}
\* the archive of thumbnails: 2 x 2 images of these patterns
TilePatterns == {0, 1}

\* catalog.main writes one line per file, `name colours(im, dim)`, and
\* readcolourtable reads the lines back in order as (name, colours); the
\* file names are 1, 2, ...
Catalogs(d) ==
    UNION {{[k \in 1 .. n |-> <<k, colours(MakeImage(f[k], 2, 2), d)>>] :
               f \in [1 .. n -> TilePatterns]} : n \in 0 .. MaxTiles}

IdleLayout ==
    /\ XD = 0 /\ YD = 0 /\ inimage = <<>> /\ tilesize = 0
    /\ bigwidth = 0 /\ bigheight = 0 /\ xmm = 0 /\ ymm = 0
    /\ widthFill = <<0, 0>> /\ heightFill = <<0, 0>>
    /\ actualw = 0 /\ actualh = 0 /\ actualxmm = 0 /\ actualymm = 0
    /\ leftOffset = 0 /\ topOffset = 0
    /\ originalRow = 0 /\ originalCol = 0

\* lines 293-304 of placeSpiral
EnterSpiral ==
    /\ tileLocations = <<>> /\ placedTiles = {}
    /\ x = 0 /\ y = 0 /\ cnt = 0 /\ dx = 0 /\ dy = -1 /\ i = 0

IdlePlacement ==
    /\ EnterSpiral /\ nTilesUsed = 0 /\ visited = <<>> /\ lastMatch = <<>>

IdleOutput == bigimage = "none" /\ saved = FALSE

IdleSummarizer == im = <<>> /\ summary = <<>> /\ sections = <<>>

IdleMeasures ==
    /\ sig1 = <<>> /\ sig2 = <<>> /\ dist12 = 0 /\ dist21 = 0
    /\ original = <<>> /\ mosaic = <<>> /\ percent = 0

IdleCataloguer == directory = <<>> /\ catdim = 0 /\ outfile = <<>>

\* A run of mosaic() as main() calls it: the image is portrait or square,
\* and rotated only if it was landscape.
Init ==
    /\ canvas \in SmallCanvases
    /\ margin \in {m \in SmallMargins : 2 * m < canvas[1]}
    /\ tilemm \in SmallTileMMs
    /\ newImage \in [size : SourceSizes, pattern : SourcePatterns]
    /\ rotated \in (IF newImage.size[1] = newImage.size[2] THEN {FALSE} ELSE BOOLEAN)
    /\ dim \in 1 .. 2
    /\ allowDups \in BOOLEAN
    /\ table \in Catalogs(dim)
    /\ IdleLayout /\ IdlePlacement /\ IdleOutput /\ IdleSummarizer
    /\ IdleMeasures /\ IdleCataloguer
    /\ pc = "mosaic" /\ err = ""

Raise(e) == pc' = "raise" /\ err' = e

\* mosaic() from its entry to the call of placeSpiral (lines 440-591)
Layout ==
    /\ pc = "mosaic"
    /\ LET page == pagesize(canvas, margin)
           xy   == tileCounts(page, tilemm, newImage.size)
           ts   == cappedTilesize(firstTilesize(tilemm), xy[1], xy[2])
           bw   == ts * xy[1]
           bh   == ts * xy[2]
           wf   == checkFill(canvas[1], pixels2mm(bw), DPI)
           hf   == checkFill(canvas[2], pixels2mm(bh), DPI)
           aw   == bw + wf[1] * 2 + wf[2]
           ah   == bh + hf[1] * 2 + hf[2]
           oc   == originalCell(rotated, xy[1], xy[2])
       IN  IF ~(canvas[1] < canvas[2])
           THEN Raise(AssertionError) /\ UNCHANGED <<layout, output>>
           ELSE IF page[2] = 0
           THEN Raise(ZeroDivisionError) /\ UNCHANGED <<layout, output>>
           ELSE IF xy[2] = 0 \/ dim * xy[1] < 1 \/ dim * xy[2] < 1
           THEN /\ Raise(IF xy[2] = 0 THEN ZeroDivisionError ELSE ValueError)
                /\ XD' = xy[1] /\ YD' = xy[2]
                /\ UNCHANGED <<inimage, tilesize, bigwidth, bigheight, xmm, ymm,
                               widthFill, heightFill, actualw, actualh, actualxmm,
                               actualymm, leftOffset, topOffset, originalRow, originalCol, output>>
           ELSE /\ XD' = xy[1] /\ YD' = xy[2]
                /\ inimage' = resize(newImage, dim * xy[1], dim * xy[2])
                /\ IF notEnoughImages(xy[1], xy[2], Len(table), allowDups)
                   THEN /\ pc' = "return" /\ err' = err
                        /\ tilesize' = firstTilesize(tilemm)
                        /\ UNCHANGED <<bigwidth, bigheight, xmm, ymm, widthFill,
                                       heightFill, actualw, actualh, actualxmm,
                                       actualymm, leftOffset, topOffset, originalRow, originalCol, output>>
                   ELSE /\ tilesize' = ts
                        /\ bigwidth' = bw /\ bigheight' = bh
                        /\ xmm' = pixels2mm(bw) /\ ymm' = pixels2mm(bh)
                        /\ IF ~(pixels2mm(bw) <= canvas[1] /\ pixels2mm(bh) <= canvas[2])
                           THEN /\ Raise(AssertionError)
                                /\ UNCHANGED <<widthFill, heightFill, actualw, actualh,
                                               actualxmm, actualymm, leftOffset, topOffset, originalRow,
                                               originalCol, output>>
                           ELSE /\ widthFill' = wf /\ heightFill' = hf
                                /\ actualw' = aw /\ actualh' = ah
                                /\ actualxmm' = pixels2mmRounded(aw)
                                /\ leftOffset' = wf[1] /\ topOffset' = hf[1]
                                /\ actualymm' = pixels2mmRounded(ah)
                                /\ bigimage' = "blank" /\ saved' = saved
                                /\ originalRow' = oc[1] /\ originalCol' = oc[2]
                                /\ pc' = "placeSpiral" /\ err' = err
    /\ UNCHANGED <<inputs, walk, placement, summarizer, measures, cataloguer>>

\* One pass of the loop of placeSpiral (lines 305-318), with its call of
\* placeBestTile; the AssertionError of findBestTile ends the run.
SpiralStep ==
    /\ pc = "placeSpiral"
    /\ i < spiralSteps(XD, YD)
    /\ LET im_i == centre(XD) + x
           im_j == centre(YD) + y
           placed == placeBestTile(originalRow, originalCol, inimage, allowDups,
                                   tileLocations, placedTiles, table, dim, im_j, im_i)
           call == IF im_j = originalRow /\ im_i = originalCol THEN lastMatch
                   ELSE <<[row |-> im_j, col |-> im_i, used |-> placedTiles,
                           result |-> findBestTile(inimage, allowDups, placedTiles,
                                                   table, dim, im_j, im_i)]>>
           ndx == IF turn(x, y) THEN -dy ELSE dx
           ndy == IF turn(x, y) THEN dx ELSE dy
       IN  IF inside(x, y, XD, YD) /\ ~placed.found
           THEN /\ Raise(AssertionError)
                /\ visited' = Append(visited, <<im_j, im_i>>)
                /\ lastMatch' = call
                /\ UNCHANGED <<walk, tileLocations, placedTiles>>
           ELSE /\ IF inside(x, y, XD, YD)
                   THEN /\ tileLocations' = placed.tileLocations
                        /\ placedTiles' = placed.placedTiles
                        /\ cnt' = cnt + 1
                        /\ visited' = Append(visited, <<im_j, im_i>>)
                        /\ lastMatch' = call
                   ELSE UNCHANGED <<tileLocations, placedTiles, cnt, visited, lastMatch>>
                /\ dx' = ndx /\ dy' = ndy
                /\ x' = x + ndx /\ y' = y + ndy
                /\ i' = i + 1
                /\ UNCHANGED <<pc, err>>
    /\ UNCHANGED <<inputs, layout, nTilesUsed, output, summarizer, measures, cataloguer>>

\* `return (tileLocations, len(placedTiles))` (line 320)
SpiralReturn ==
    /\ pc = "placeSpiral"
    /\ i = spiralSteps(XD, YD)
    /\ nTilesUsed' = Cardinality(placedTiles)
    /\ pc' = "compose"
    /\ UNCHANGED <<inputs, layout, walk, tileLocations, placedTiles, visited,
                   lastMatch, output, summarizer, measures, cataloguer, err>>

\* The tiles are pasted into bigimage and the banner is drawn (lines
\* 593-649); table[index] is read for every index but the sentinel.
Compose ==
    /\ pc = "compose"
    /\ IF \A k \in DOMAIN tileLocations :
             tileLocations[k][1] = MOSAIC_ORIGINAL_TILE_INDEX
             \/ tileLocations[k][1] \in 0 .. Len(table) - 1
       THEN bigimage' = "tiled" /\ pc' = "save" /\ err' = err
       ELSE bigimage' = bigimage /\ Raise(IndexError)
    /\ UNCHANGED <<inputs, layout, walk, placement, saved, summarizer, measures, cataloguer>>

\* bigimage.save(outname, dpi=(DPI,DPI)) (line 653)
Save ==
    /\ pc = "save"
    /\ saved' = TRUE
    /\ pc' = "metric"
    /\ UNCHANGED <<inputs, layout, walk, placement, bigimage, summarizer,
                   measures, cataloguer, err>>

\* metric(newImage, justMosaic) (lines 658-667, 326-367): the mosaic is
\* XD*tilesize by YD*tilesize pixels
Metric ==
    /\ pc = "metric"
    /\ IF newImage.size[1] <= XD * tilesize /\ newImage.size[2] <= YD * tilesize
       THEN pc' = "done" /\ err' = err
       ELSE Raise(AssertionError)
    /\ UNCHANGED <<inputs, layout, walk, placement, output, summarizer, measures, cataloguer>>

Next == Layout \/ SpiralStep \/ SpiralReturn \/ Compose \/ Save \/ Metric

Spec == Init /\ [][Next]_vars

\* ---------------------------------------------- placeSpiral on its own
IdleInputs ==
    /\ canvas = <<0, 0>> /\ margin = 0 /\ tilemm = 0
    /\ newImage = [size |-> <<0, 0>>, pattern |-> 0] /\ rotated = FALSE

\* placeSpiral(inimage, originalRow, originalCol, XD, YD, table, dim,
\* allowDups) for every grid up to MaxGrid x MaxGrid, with the original
\* image in the bottom left or the bottom right cell and duplicates
\* allowed over a colour table of a black and a white tile.
InitSpiral ==
    /\ IdleInputs
    /\ dim = 1 /\ allowDups = TRUE
    /\ table = <<<<1, colours(MakeImage(0, 2, 2), 1)>>, <<2, colours(MakeImage(1, 2, 2), 1)>>>>
    /\ XD \in 1 .. MaxGrid /\ YD \in 1 .. MaxGrid
    /\ inimage = MakeImage(5, XD, YD)
    /\ originalRow = YD - 1 /\ originalCol \in {0, XD - 1}
    /\ tilesize = 0 /\ bigwidth = 0 /\ bigheight = 0 /\ xmm = 0 /\ ymm = 0
    /\ widthFill = <<0, 0>> /\ heightFill = <<0, 0>>
    /\ actualw = 0 /\ actualh = 0 /\ actualxmm = 0 /\ actualymm = 0
    /\ leftOffset = 0 /\ topOffset = 0
    /\ IdlePlacement /\ IdleOutput /\ IdleSummarizer
    /\ IdleMeasures /\ IdleCataloguer
    /\ pc = "placeSpiral" /\ err = ""

NextSpiral == SpiralStep \/ SpiralReturn

SpecSpiral == InitSpiral /\ [][NextSpiral]_vars

\* ------------------------------------------- the layout of printed pages
LayoutMargins == {0, 10, 20}
LayoutTileMMs == {5, 7, 10, 20, 30}
LayoutSources == {<<1, 1>>, <<2, 3>>, <<3, 4>>, <<1, 3>>, <<554, 801>>}

\* mosaic() up to the call of placeSpiral for the page sizes of PAGE_SIZES,
\* duplicates allowed
InitLayout ==
    /\ canvas \in PAGE_SIZES
    /\ margin \in LayoutMargins
    /\ tilemm \in LayoutTileMMs
    /\ newImage \in [size : LayoutSources, pattern : {1}]
    /\ rotated \in (IF newImage.size[1] = newImage.size[2] THEN {FALSE} ELSE BOOLEAN)
    /\ dim = 1 /\ allowDups = TRUE
    /\ table = <<<<1, colours(MakeImage(1, 2, 2), 1)>>>>
    /\ IdleLayout /\ IdlePlacement /\ IdleOutput /\ IdleSummarizer
    /\ IdleMeasures /\ IdleCataloguer
    /\ pc = "mosaic" /\ err = ""

NextLayout == Layout

SpecLayout == InitLayout /\ [][NextLayout]_vars

\* ------------------------------------------------- colours() on its own
\* colours(im, dim) for every image of a pattern of Patterns up to MaxSide
\* x MaxSide pixels and every dim up to MaxDim
InitColours ==
    /\ IdleInputs /\ allowDups = FALSE /\ table = <<>>
    /\ IdleLayout /\ IdlePlacement /\ IdleOutput
    /\ IdleMeasures /\ IdleCataloguer
    /\ im \in {MakeImage(p, w, h) : p \in Patterns, w \in 1 .. MaxSide, h \in 1 .. MaxSide}
    /\ dim \in 1 .. MaxDim
    /\ summary = <<>> /\ sections = <<>>
    /\ pc = "colours" /\ err = ""

\* the call colours(im, dim): sections[s] are the pixels read for section s
Colours ==
    /\ pc = "colours"
    /\ sections' = [s \in 0 .. dim * dim - 1 |->
                       sectionPixels(im, dim, s \div dim, s % dim)]
    /\ IF colours(im, dim) = ZeroDivisionError
       THEN Raise(ZeroDivisionError) /\ summary' = summary
       ELSE summary' = colours(im, dim) /\ pc' = "coloursDone" /\ err' = err
    /\ UNCHANGED <<inputs, layout, walk, placement, output, im, measures, cataloguer>>

NextColours == Colours

SpecColours == InitColours /\ [][NextColours]_vars

\* ------------------------------------------------ distance() on its own
\* the signatures colours() gives for the images of Patterns from dim x dim
\* up to MaxDim x MaxDim pixels
Signatures(d) == {colours(MakeImage(p, w, h), d) : p \in Patterns, w \in d .. MaxDim, h \in d .. MaxDim}

InitDistance ==
    /\ IdleInputs /\ allowDups = FALSE /\ table = <<>>
    /\ IdleLayout /\ IdlePlacement /\ IdleOutput /\ IdleSummarizer
    /\ IdleCataloguer
    /\ dim \in 1 .. MaxDim
    /\ sig1 \in Signatures(dim) /\ sig2 \in Signatures(dim)
    /\ dist12 = 0 /\ dist21 = 0
    /\ original = <<>> /\ mosaic = <<>> /\ percent = 0
    /\ pc = "distance" /\ err = ""

\* dist = distance(dim, ...) / (dim*dim) of findBestTile, with the two
\* signatures in both orders
Distance ==
    /\ pc = "distance"
    /\ dist12' = distance(dim, sig1[1], sig1[2], sig1[3], sig2[1], sig2[2], sig2[3]) \div (dim * dim)
    /\ dist21' = distance(dim, sig2[1], sig2[2], sig2[3], sig1[1], sig1[2], sig1[3]) \div (dim * dim)
    /\ pc' = "distanceDone"
    /\ UNCHANGED <<inputs, layout, walk, placement, output, summarizer, sig1,
                   sig2, original, mosaic, percent, cataloguer, err>>

NextDistance == Distance

SpecDistance == InitDistance /\ [][NextDistance]_vars

\* -------------------------------------------------- metric() on its own
\* metric(original, mosaic) for every pair of images of Patterns up to
\* MaxMetricSide x MaxMetricSide pixels
InitMetric ==
    /\ IdleInputs /\ allowDups = FALSE /\ table = <<>> /\ dim = 1
    /\ IdleLayout /\ IdlePlacement /\ IdleOutput /\ IdleSummarizer
    /\ IdleCataloguer
    /\ sig1 = <<>> /\ sig2 = <<>> /\ dist12 = 0 /\ dist21 = 0
    /\ original \in [size : (1 .. MaxMetricSide) \X (1 .. MaxMetricSide), pattern : Patterns]
    /\ mosaic \in {MakeImage(p, w, h) : p \in Patterns, w \in 1 .. MaxMetricSide, h \in 1 .. MaxMetricSide}
    /\ percent = 0
    /\ pc = "metricAvg" /\ err = ""

\* metricAvg = metric(newImage, justMosaic); percent = (1 - metricAvg) * 100
Score ==
    /\ pc = "metricAvg"
    /\ IF ~metric(original, mosaic).asserted
       THEN Raise(AssertionError) /\ percent' = percent
       ELSE /\ percent' = percentOf(metric(original, mosaic).avg)
            /\ pc' = "percent" /\ err' = err
    /\ UNCHANGED <<inputs, layout, walk, placement, output, summarizer, sig1,
                   sig2, dist12, dist21, original, mosaic, cataloguer>>

NextMetric == Score

SpecMetric == InitMetric /\ [][NextMetric]_vars

\* ------------------------- catalog.main and readcolourtable on their own
\* the paths os.walk can give: without whitespace, with a space, and with
\* a space before a decimal word
FileNames == {<<"a.png">>, <<"b.png">>, <<"my", "tile.png">>, <<"tile", "7">>}

\* the directories of up to MaxFiles files: each file a path and a 2 x 2
\* image of TilePatterns, no path twice
Directories ==
    UNION {{f \in [1 .. n -> [name : FileNames, pattern : TilePatterns]] :
               \A j, k \in 1 .. n : f[j].name = f[k].name => j = k} : n \in 0 .. MaxFiles}

InitCatalog ==
    /\ canvas = <<0, 0>> /\ margin = 0 /\ tilemm = 0
    /\ newImage = [size |-> <<0, 0>>, pattern |-> 0] /\ rotated = FALSE
    /\ allowDups = FALSE /\ table = <<>>
    /\ IdleLayout /\ IdlePlacement /\ IdleOutput /\ IdleSummarizer
    /\ IdleMeasures
    /\ directory \in Directories
    /\ catdim \in 1 .. MaxDim
    /\ dim \in 1 .. MaxDim
    /\ outfile = <<>>
    /\ pc = "catalog" /\ err = ""

\* catalog.main(directory, outfilename, catdim): the lines are flushed one
\* by one, so those written before an exception stay in the file
CatalogMain ==
    /\ pc = "catalog"
    /\ LET written == writeLines(directory, catdim, 1)
       IN  /\ outfile' = written.lines
           /\ IF written.raised # ""
              THEN Raise(written.raised)
              ELSE pc' = "readcolourtable" /\ err' = err
    /\ UNCHANGED <<inputs, layout, walk, placement, output, summarizer,
                   measures, directory, catdim>>

\* table = readcolourtable(colourtablename, dim) of the file just written
ReadColourTable ==
    /\ pc = "readcolourtable"
    /\ LET read == readcolourtable(outfile, dim)
       IN  IF read.raised # ""
           THEN Raise(read.raised) /\ table' = table
           ELSE table' = read.ctable /\ pc' = "ctable" /\ err' = err
    /\ UNCHANGED <<canvas, margin, tilemm, newImage, rotated, dim, allowDups,
                   layout, walk, placement, output, summarizer, measures,
                   cataloguer>>

NextCatalog == CatalogMain \/ ReadColourTable

SpecCatalog == InitCatalog /\ [][NextCatalog]_vars

\* ------------------------------------------------------------ properties
\* the cells (row, col) of the grid
Cells(xd, yd) == (0 .. yd - 1) \X (0 .. xd - 1)

\* placeSpiral has returned
Finished == pc \in {"compose", "save", "metric", "done"}

CatalogIndices == 0 .. Len(table) - 1

CellsHolding(t) == {c \in DOMAIN tileLocations : tileLocations[c][1] = t}

\* C1, as stated: for a catalog of N tiles and a grid of XD*YD = N cells
\* with duplicates disallowed, when placeSpiral has finished every catalog
\* index 0..N-1 is held by exactly one cell of tileLocations.
C1_EveryTileExactlyOnce ==
    (Finished /\ ~allowDups /\ Len(table) = XD * YD) =>
        \A t \in CatalogIndices : Cardinality(CellsHolding(t)) = 1

\* C1, amended: in that case every cell of the grid has an entry, the cell
\* (originalRow, originalCol) and only it holds the sentinel -1, no catalog
\* index is held by two cells, and exactly N-1 of the N catalog indices are
\* held by a cell.
C1_AllButOneTileOnce ==
    (Finished /\ ~allowDups /\ Len(table) = XD * YD) =>
        /\ DOMAIN tileLocations = Cells(XD, YD)
        /\ CellsHolding(MOSAIC_ORIGINAL_TILE_INDEX) = {<<originalRow, originalCol>>}
        /\ \A t \in CatalogIndices : Cardinality(CellsHolding(t)) <= 1
        /\ Cardinality({t \in CatalogIndices : CellsHolding(t) # {}}) = Len(table) - 1

C1_Witness ==
    Finished /\ ~allowDups /\ Len(table) = XD * YD /\ XD = 2 /\ YD = 2

\* C2: for every XD >= 1 and YD >= 1 the spiral walk passes only cells of
\* [0,YD) x [0,XD) to placeBestTile, passes no cell twice, passes the
\* centre cell (jc, ic) first, and has passed every cell when it ends.
C2_SpiralVisitsEachCellOnce ==
    /\ \A k \in 1 .. Len(visited) : visited[k] \in Cells(XD, YD)
    /\ \A k, l \in 1 .. Len(visited) : k # l => visited[k] # visited[l]
    /\ (pc = "placeSpiral" /\ i >= 1) =>
          (Len(visited) >= 1 /\ visited[1] = <<(YD - 1) \div 2, (XD - 1) \div 2>>)
    /\ pc = "compose" =>
          {visited[k] : k \in 1 .. Len(visited)} = Cells(XD, YD)

C2_Witness ==
    pc = "compose" /\ XD = 2 /\ YD = 5 /\ Len(visited) = 10 /\ visited[1] = <<2, 0>>

\* C3: with duplicates disallowed, at every step no catalog index is held
\* by two cells, every index held by a cell is in placedTiles, and the
\* index findBestTile returned was not in placedTiles when it was called.
C3_NoTileInTwoCells ==
    ~allowDups =>
        /\ \A c1, c2 \in DOMAIN tileLocations :
              (c1 # c2 /\ tileLocations[c1][1] \in CatalogIndices)
                 => tileLocations[c1][1] # tileLocations[c2][1]
        /\ \A c \in DOMAIN tileLocations : tileLocations[c][1] \in placedTiles
        /\ \A k \in 1 .. Len(lastMatch) :
              lastMatch[k].result.found
                 => lastMatch[k].result.bestTileIndex \notin lastMatch[k].used

C3_Witness ==
    /\ ~allowDups /\ pc = "placeSpiral"
    /\ Cardinality(DOMAIN tileLocations) = 3
    /\ Cardinality(placedTiles \cap CatalogIndices) = 3

\* C4: findBestTile returns a candidate (any index if duplicates are
\* allowed, else any index not in the used set) of minimal averaged
\* distance to the sample, the lowest index among those of that distance;
\* if some candidate's signature is the sample, the distance returned is 0
\* and the index is the lowest candidate with that signature.
C4_BestTileIsFirstMinimum ==
    \A k \in 1 .. Len(lastMatch) :
        LET m    == lastMatch[k]
            sig  == sample(inimage, dim, m.row, m.col)
            cand == {c \in CatalogIndices : allowDups \/ c \notin m.used}
            same == {c \in cand : table[c + 1][2] = sig}
            best == m.result.bestTileIndex
        IN  m.result.found =>
              /\ best \in cand
              /\ m.result.bestDistance = tileDistance(sig, table, dim, best)
              /\ \A c \in cand :
                    /\ tileDistance(sig, table, dim, c) >= m.result.bestDistance
                    /\ tileDistance(sig, table, dim, c) = m.result.bestDistance => c >= best
              /\ same # {} =>
                    /\ m.result.bestDistance = 0
                    /\ best \in same
                    /\ \A c \in same : c >= best

C4_Witness ==
    /\ Len(lastMatch) = 1
    /\ lastMatch[1].result.found
    /\ lastMatch[1].result.bestDistance = 0
    /\ \E c \in CatalogIndices :
          /\ c > lastMatch[1].result.bestTileIndex
          /\ allowDups \/ c \notin lastMatch[1].used
          /\ table[c + 1][2] = sample(inimage, dim, lastMatch[1].row, lastMatch[1].col)

\* C5: when duplicates are disallowed and XD*YD exceeds the size of the
\* colour table, mosaic() returns before placeSpiral: no cell is passed to
\* placeBestTile, tileLocations and placedTiles stay empty, and no output
\* image is created or saved.
C5_TooFewTilesStopsBeforePlacement ==
    (~allowDups /\ XD * YD > Len(table)) =>
        /\ pc = "return"
        /\ visited = <<>> /\ tileLocations = <<>> /\ placedTiles = {}
        /\ bigimage = "none" /\ saved = FALSE

C5_Witness ==
    pc = "return" /\ ~allowDups /\ XD * YD = 4 /\ Len(table) = 3

\* C6, as stated: in a run of mosaic() that passes the pre-check and starts
\* scheduling, findBestTile never ends its scan without a candidate (its
\* `assert found` never fails); a scan without a candidate happens only
\* with duplicates disallowed and every tile used.
C6_CandidateSetNeverEmpty ==
    \A k \in 1 .. Len(lastMatch) : lastMatch[k].result.found

\* C7, as stated: a run that completes has a final physical canvas size
\* (actualxmm, actualymm) of at most the requested canvas.
C7_FinalSizeWithinCanvas ==
    pc = "done" => (actualxmm <= canvas[1] /\ actualymm <= canvas[2])

\* C8: the page is the canvas minus 2*margin per axis, the upper bounds of
\* the tile counts are outX = pageW/tilemm and outY = pageH/tilemm; if the
\* source ratio width/height is less than outX/outY then YD = floor(outY)
\* and XD = floor(outY * ratio), otherwise XD = floor(outX) and
\* YD = floor(outX / ratio); either way XD <= floor(outX) and
\* YD <= floor(outY).  For A1, margin 20, tile 10 the page is 554 x 801 and
\* the bounds are 55 and 80.
C8_TileCountsWithinPage ==
    pc # "mosaic" =>
        LET pageW == canvas[1] - 2 * margin
            pageH == canvas[2] - 2 * margin
            origX == newImage.size[1]
            origY == newImage.size[2]
        IN  /\ IF origX * pageH < pageW * origY
               THEN YD = pageH \div tilemm /\ XD = (pageH * origX) \div (tilemm * origY)
               ELSE XD = pageW \div tilemm /\ YD = (pageW * origY) \div (tilemm * origX)
            /\ XD <= pageW \div tilemm
            /\ YD <= pageH \div tilemm
            /\ (canvas = <<594, 841>> /\ margin = 20 /\ tilemm = 10) =>
                  (pageW = 554 /\ pageH = 801
                   /\ pageW \div tilemm = 55 /\ pageH \div tilemm = 80)

C8_Witness ==
    /\ pc = "placeSpiral"
    /\ canvas = <<594, 841>> /\ margin = 20 /\ tilemm = 10
    /\ newImage.size = <<2, 3>> /\ XD = 53 /\ YD = 80

\* C9, as stated: for a square image of one colour C and any dim >= 1,
\* colours(im, dim) returns dim*dim entries per channel, each the channel
\* of C.
C9_UniformImageSummary ==
    (/\ pc # "colours"
     /\ im.size[1] = im.size[2]
     /\ \A xy \in DOMAIN im.px : im.px[xy] = im.px[<<0, 0>>]) =>
        /\ pc = "coloursDone"
        /\ \A c \in 1 .. 3 : summary[c] = [s \in 1 .. dim * dim |-> im.px[<<0, 0>>][c]]

\* the pixels read by colours() for any section
ReadPixels == UNION {sections[s] : s \in DOMAIN sections}

\* C10, as stated: each axis is split into dim spans of floor(W/dim) pixels
\* from pixel 0 on, so the pixels read are those with
\* x < dim*floor(W/dim) and y < dim*floor(H/dim), each for one section.
C10_OnlyTrailingPixelsDropped ==
    pc # "colours" =>
        /\ ReadPixels = {xy \in Pixels(im.size[1], im.size[2]) :
                            /\ xy[1] < dim * (im.size[1] \div dim)
                            /\ xy[2] < dim * (im.size[2] \div dim)}
        /\ \A s, t \in DOMAIN sections : s # t => sections[s] \cap sections[t] = {}

\* the pixels of span k of an axis of L pixels: floor(L/dim) pixels from
\* pixel floor(k*L/dim) on
Span(k, L) == {c \in 0 .. L - 1 : (k * L) \div dim <= c /\ c < (k * L) \div dim + L \div dim}

Covered(L) == UNION {Span(k, L) : k \in 0 .. dim - 1}

\* C10, amended: each axis is split into dim spans of floor(W/dim) pixels,
\* span k starting at pixel floor(k*W/dim); section x*dim + y reads the
\* pixels of span x of the width and span y of the height; no pixel is read
\* for two sections; W mod dim columns and H mod dim rows are in no span,
\* and they need not be the trailing ones.
C10_SpansStartAtScaledOffsets ==
    pc # "colours" =>
        /\ \A s \in DOMAIN sections :
              sections[s] = Span(s \div dim, im.size[1]) \X Span(s % dim, im.size[2])
        /\ \A s, t \in DOMAIN sections : s # t => sections[s] \cap sections[t] = {}
        /\ ReadPixels \subseteq Pixels(im.size[1], im.size[2])
        /\ Cardinality((0 .. im.size[1] - 1) \ Covered(im.size[1])) = im.size[1] % dim
        /\ Cardinality((0 .. im.size[2] - 1) \ Covered(im.size[2])) = im.size[2] % dim

C10_Witness ==
    /\ pc = "coloursDone" /\ dim = 3 /\ im.size = <<5, 5>>
    /\ <<2, 0>> \notin ReadPixels /\ <<3, 0>> \in ReadPixels

\* C11: the distance between two signatures is the same in both orders, is
\* never negative, and is zero exactly when the two signatures are equal in
\* every cell and channel.
C11_DistanceSymmetricZeroIffEqual ==
    pc = "distanceDone" =>
        /\ dist12 = dist21
        /\ dist12 >= 0
        /\ (dist12 = 0 <=> sig1 = sig2)

\* two signatures of a 2 x 2 grid that differ in some cells and agree in
\* the others
C11_Witness ==
    /\ pc = "distanceDone" /\ dim = 2 /\ dist12 > 0
    /\ Cardinality({p \in 1 .. 4 : <<sig1[1][p], sig1[2][p], sig1[3][p]>>
                                    # <<sig2[1][p], sig2[2][p], sig2[3][p]>>}) \in 1 .. 3

\* the original at the size of the mosaic, as metric() compares it
Resized == MakeImage(original.pattern, mosaic.size[1], mosaic.size[2])

\* C12: the score is (1 - average) * 100 with the per-pixel distance
\* divided by sqrt(3 * 255^2): a mosaic identical to the resized original
\* scores exactly 100, and a mosaic at distance 255 in every channel of
\* every pixel scores exactly 0.
C12_ScoreIs100WhenIdenticalAnd0AtMaximum ==
    pc = "percent" =>
        /\ (mosaic = Resized => percent = 100 * MetricScale)
        /\ ((\A xy \in DOMAIN mosaic.px : \A c \in 1 .. 3 :
                abs(mosaic.px[xy][c] - Resized.px[xy][c]) = 255)
            => percent = 0)

\* C13: every fatal condition ends the run with no output produced: the
\* output image is saved only after all fatal checks have passed, so a run
\* that ended in an exception has saved nothing.
C13_FatalRunSavesNothing == pc = "raise" => ~saved

\* C14: reading a colour table whose lines were written for another grid
\* dimension than the reader's dim, smaller or larger, never returns a
\* catalog.
C14_OtherDimensionNeverReturnsCatalog ==
    (catdim # dim /\ outfile # <<>>) => pc # "ctable"

\* readcolourtable has ended, with a catalog or with an exception of its
\* own
ReadEnded == pc = "ctable" \/ (pc = "raise" /\ err \in {IndexError, ValueError})

\* C15: for every sequence of files written by catalog.main with dimension
\* d, readcolourtable with the same d returns as many entries in the same
\* order, each with the name written and with the d*d values per channel
\* that colours() gave.
C15_CatalogRoundTrip ==
    (ReadEnded /\ catdim = dim) =>
        /\ pc = "ctable"
        /\ Len(table) = Len(directory)
        /\ \A k \in 1 .. Len(directory) :
              /\ table[k][1] = directory[k].name
              /\ table[k][2] = colours(MakeImage(directory[k].pattern, 2, 2), dim)
              /\ \A c \in 1 .. 3 : Len(table[k][2][c]) = dim * dim

\* mosaic() ended at `assert canvas[0] < canvas[1]`, before any layout
OrientationAssertFailed ==
    pc = "raise" /\ err = AssertionError /\ XD = 0 /\ tilesize = 0

\* C16: a custom page WxH is accepted whenever W <= H, W = H included, and
\* the run then goes on into layout planning without failing an
\* assertion on the orientation of the canvas.
C16_CustomPageNotWiderThanHighIsPlanned ==
    (canvas \in CustomPages /\ canvas[1] <= canvas[2]) =>
        /\ canvas \in SmallCanvases
        /\ ~OrientationAssertFailed

\* C17: while the cells are scheduled each cell's entry of tileLocations
\* is written once, into a key not yet present, and no entry present is
\* changed or removed; once placeSpiral has returned the map has exactly
\* the XD*YD cells of the grid as its keys and nothing that follows
\* (compositing, banner, save, metric) modifies it.
C17_TileLocationsWrittenOnceThenFixed ==
    /\ [](Finished => /\ DOMAIN tileLocations = Cells(XD, YD)
                      /\ Cardinality(DOMAIN tileLocations) = XD * YD)
    /\ [][/\ \A k \in DOMAIN tileLocations :
                k \in DOMAIN tileLocations' /\ tileLocations'[k] = tileLocations[k]
          /\ visited' # visited => visited'[Len(visited')] \notin DOMAIN tileLocations
          /\ Finished => tileLocations' = tileLocations]_vars

\* a finished run over a grid of at least four cells, its output saved
C17_Witness ==
    /\ pc = "done" /\ saved /\ XD * YD >= 4
    /\ Cardinality(DOMAIN tileLocations) = XD * YD

\* the catalog indices held by the cells placed so far
CatalogTilesPlaced == {tileLocations[c][1] : c \in DOMAIN tileLocations} \cap CatalogIndices

\* C18: after every placement step placedTiles holds only catalog indices
\* 0..N-1, is exactly the set of the catalog indices assigned so far, and
\* never loses an element; so the count placeSpiral returns, which the
\* banner prints as the unique tiles used, is the number of distinct
\* catalog tiles of the placement.
C18_PlacedTilesAreTheCatalogTilesUsed ==
    /\ [](/\ placedTiles \subseteq CatalogIndices
          /\ placedTiles = CatalogTilesPlaced
          /\ Finished => nTilesUsed = Cardinality(CatalogTilesPlaced))
    /\ [][placedTiles \subseteq placedTiles']_vars

\* C19: in the placement of a run of mosaic() exactly one cell holds the
\* sentinel (-1, 0.0): the origin cell, which is (YD-1, 0) for an image
\* that was not rotated and (YD-1, XD-1) for a rotated one and lies inside
\* the grid; findBestTile is not called for it; every other cell holds a
\* catalog index 0 <= i < N, so the compositor never reads the table at
\* the sentinel.
C19_OnlyOriginCellHoldsSentinel ==
    LET origin == <<originalRow, originalCol>>
    IN  /\ Finished =>
              /\ origin = (IF rotated THEN <<YD - 1, XD - 1>> ELSE <<YD - 1, 0>>)
              /\ origin \in Cells(XD, YD)
              /\ CellsHolding(MOSAIC_ORIGINAL_TILE_INDEX) = {origin}
              /\ tileLocations[origin] = <<MOSAIC_ORIGINAL_TILE_INDEX, MOSAIC_ORIGINAL_TILE_DISTANCE>>
              /\ \A c \in DOMAIN tileLocations \ {origin} :
                    tileLocations[c][1] \in CatalogIndices
        /\ pc \in {"placeSpiral", "compose", "save", "metric", "done"} =>
              \A k \in 1 .. Len(lastMatch) : <<lastMatch[k].row, lastMatch[k].col>> # origin
        /\ ~(pc = "raise" /\ err = IndexError)

\* a finished run for a rotated image over a grid of two columns or more
C19_Witness ==
    /\ pc = "done" /\ rotated /\ XD >= 2 /\ YD >= 2
    /\ tileLocations[<<YD - 1, XD - 1>>][1] = MOSAIC_ORIGINAL_TILE_INDEX

\* the distance of catalog entry t to the sample of cell c
CellDistance(c, t) == tileDistance(sample(inimage, dim, c[1], c[2]), table, dim, t)

\* C20: with duplicates allowed the tile of a cell depends only on the
\* sample of the cell and on the catalog, not on the used set or on the
\* cells placed before: every cell but the origin holds the lowest catalog
\* index of the least distance over the whole catalog, with that distance,
\* which is the same for every visiting order.
C20_DuplicatesAllowedChoiceIgnoresUsedSet ==
    allowDups =>
        \A c \in DOMAIN tileLocations \ {<<originalRow, originalCol>>} :
            LET t  == tileLocations[c][1]
                dt == tileLocations[c][2]
            IN  /\ t \in CatalogIndices
                /\ dt = CellDistance(c, t)
                /\ \A u \in CatalogIndices :
                      LET du == CellDistance(c, u)
                      IN  dt <= du /\ (du = dt => t <= u)

\* a finished run with duplicates allowed in which one catalog tile fills
\* two cells or more although another tile of the catalog is in no cell
C20_Witness ==
    /\ pc = "done" /\ allowDups
    /\ \E t, u \in CatalogIndices :
          Cardinality(CellsHolding(t)) >= 2 /\ CellsHolding(u) = {}

\* the places in the visiting order of the cells that hold a tile and are
\* not the origin cell
MatchedVisits == {k \in 1 .. Len(visited) : /\ visited[k] \in DOMAIN tileLocations
                                            /\ visited[k] # <<originalRow, originalCol>>}

\* the catalog tiles chosen by the cells visited before the k-th
ChosenBefore(k) == {tileLocations[visited[j]][1] : j \in {m \in MatchedVisits : m < k}}

\* C21: with duplicates disallowed the assignment is greedy in spiral
\* order: the tile of every cell but the origin is of least distance to
\* the sample of the cell among exactly the catalog tiles not chosen by
\* the cells visited before it; so the first cell visited that is not the
\* origin, the centre, holds the best match of the whole catalog, and no
\* later cell holds a tile of an earlier one.
C21_GreedyInSpiralOrder ==
    ~allowDups =>
        /\ \A k \in MatchedVisits :
              LET c     == visited[k]
                  t     == tileLocations[c][1]
                  avail == CatalogIndices \ ChosenBefore(k)
              IN  /\ t \in avail
                  /\ \A u \in avail : tileLocations[c][2] <= CellDistance(c, u)
        /\ MatchedVisits # {} =>
              LET k == CHOOSE m \in MatchedVisits : \A n \in MatchedVisits : m <= n
                  c == visited[k]
              IN  /\ c = <<centre(YD), centre(XD)>>
                  /\ \A u \in CatalogIndices : tileLocations[c][2] <= CellDistance(c, u)

\* a finished run without duplicates in which some cell holds a tile that
\* is not its best match in the catalog, an earlier cell holding that one
C21_Witness ==
    /\ pc = "done" /\ ~allowDups /\ XD * YD >= 4
    /\ \E k \in MatchedVisits : \E u \in ChosenBefore(k) :
          CellDistance(visited[k], u) < tileLocations[visited[k]][2]

\* the dim x dim block of inimage under the cell (row, col), as an image
Block(row, col) ==
    [size |-> <<dim, dim>>,
     px   |-> [xy \in Pixels(dim, dim) |->
                  getpixel(inimage, col * dim + xy[1], row * dim + xy[2])]]

\* the pixels of inimage sampled for the cell (row, col)
SampledPixels(row, col) == {samplePixel(dim, row, col, k) : k \in 0 .. dim * dim - 1}

\* C22: the signature colours() builds for the catalog and the signature
\* findBestTile samples are in the same sub-cell order: entry k of each
\* channel is the sub-cell in column k div d and row k mod d, so the
\* sample of a cell is what colours() gives for the block of the cell; the
\* d*d pixels sampled for the cell (row, col) are (col*d+fx, row*d+fy),
\* all inside the resized source of dim*XD x dim*YD pixels and disjoint
\* from the samples of every other cell.
C22_SampleAndSummaryShareSubCellOrder ==
    pc \in {"placeSpiral", "compose"} =>
        /\ inimage.size = <<dim * XD, dim * YD>>
        /\ \A c \in Cells(XD, YD) :
              /\ sample(inimage, dim, c[1], c[2]) = colours(Block(c[1], c[2]), dim)
              /\ \A k \in 0 .. dim * dim - 1 :
                    /\ sectionPixels(Block(c[1], c[2]), dim, k \div dim, k % dim)
                          = {<<k \div dim, k % dim>>}
                    /\ \A ch \in 1 .. 3 :
                          sample(inimage, dim, c[1], c[2])[ch][k + 1]
                             = getpixel(inimage, c[2] * dim + (k \div dim), c[1] * dim + (k % dim))[ch]
              /\ SampledPixels(c[1], c[2])
                    = {<<c[2] * dim + fx, c[1] * dim + fy>> : fx \in 0 .. dim - 1, fy \in 0 .. dim - 1}
              /\ SampledPixels(c[1], c[2]) \subseteq Pixels(dim * XD, dim * YD)
              /\ \A e \in Cells(XD, YD) :
                    e # c => SampledPixels(c[1], c[2]) \cap SampledPixels(e[1], e[2]) = {}

\* findBestTile has sampled a cell of a grid with dim 2 whose block differs
\* between the sub-cell to the right and the sub-cell below
C22_Witness ==
    /\ pc = "placeSpiral" /\ dim = 2 /\ XD >= 2 /\ Len(lastMatch) = 1
    /\ LET b == Block(lastMatch[1].row, lastMatch[1].col)
       IN  getpixel(b, 1, 0) # getpixel(b, 0, 1)

\* n/d rounded to the nearest integer, halves away from zero (n >= 0)
RoundHalfAway(n, d) == (2 * n + d) \div (2 * d)

\* millimetres to pixels and pixels to millimetres under that rule
MM2Pixels(mm) == RoundHalfAway(mm * DPI * INCHES2MM_DEN, INCHES2MM_NUM)
Pixels2MM(pixels) == RoundHalfAway(pixels * INCHES2MM_NUM, DPI * INCHES2MM_DEN)

\* C23: every conversion between millimetres and pixels of the layout
\* (tile size in pixels, margin indent, size of the tile region in mm,
\* margin fill in pixels, final canvas size in mm) rounds half away from
\* zero; none truncates where another rounds.
C23_OneRoundingRuleEverywhere ==
    pc = "placeSpiral" =>
        /\ targetTilesize(tilemm) = MM2Pixels(tilemm)
        /\ pixelIndent(margin) = MM2Pixels(2 * margin)
        /\ xmm = Pixels2MM(bigwidth) /\ ymm = Pixels2MM(bigheight)
        /\ widthFill[1] = MM2Pixels((canvas[1] - xmm) \div 2)
        /\ heightFill[1] = MM2Pixels((canvas[2] - ymm) \div 2)
        /\ actualxmm = Pixels2MM(actualw) /\ actualymm = Pixels2MM(actualh)

\* the margin fill of one axis: the canvas and the tile region in mm, the
\* tile region and the canvas in pixels, (fill, extra), the offset, and the
\* values extra may take
FillOfAxis(pagei, imagei, big, actual, fill, offset, extras) ==
    /\ actual = big + 2 * fill[1] + fill[2]
    /\ fill[2] \in extras
    /\ (fill[2] # 0 <=> (pagei - imagei) % 2 = 1)
    /\ offset = fill[1]

\* C24, as stated: per axis the canvas in pixels is the tile region plus
\* 2*fill plus an extra of at most one pixel, added once; the extra is 1
\* exactly when the difference in mm between canvas and tile region is
\* odd, and the left/top offset of the tile region is fill.
C24_ExtraIsOnePixel ==
    pc = "placeSpiral" =>
        /\ FillOfAxis(canvas[1], xmm, bigwidth, actualw, widthFill, leftOffset, {0, 1})
        /\ FillOfAxis(canvas[2], ymm, bigheight, actualh, heightFill, topOffset, {0, 1})

\* round(1 * dpi / INCHES2MM): the pixels of one millimetre, 12 at 300 DPI
PixelsPerMM == round(1 * DPI * INCHES2MM_DEN, INCHES2MM_NUM)

\* C24, amended: the extra is the pixels of one millimetre, 12 at 300 DPI,
\* exactly when the difference in mm is odd, and 0 else; it is added once,
\* and the left/top offset is fill.
C24_ExtraIsOneMillimetre ==
    pc = "placeSpiral" =>
        /\ FillOfAxis(canvas[1], xmm, bigwidth, actualw, widthFill, leftOffset, {0, PixelsPerMM})
        /\ FillOfAxis(canvas[2], ymm, bigheight, actualh, heightFill, topOffset, {0, PixelsPerMM})
        /\ widthFill[1] = round(((canvas[1] - xmm) \div 2) * DPI * INCHES2MM_DEN, INCHES2MM_NUM)
        /\ heightFill[1] = round(((canvas[2] - ymm) \div 2) * DPI * INCHES2MM_DEN, INCHES2MM_NUM)

\* a layout with an odd difference in width and an even one in height
C24_Witness ==
    /\ pc = "placeSpiral"
    /\ (canvas[1] - xmm) % 2 = 1 /\ widthFill[2] = PixelsPerMM
    /\ (canvas[2] - ymm) % 2 = 0 /\ heightFill[2] = 0 /\ heightFill[1] > 0

\* mosaic() has reached the size check of lines 555-556
SizeChecked == bigwidth > 0 /\ pc \in {"placeSpiral", "raise"}

\* C25: in every run that reaches the size check the tile region fits the
\* printable page, xmm <= canvas[0] - 2*margin and ymm <= canvas[1] -
\* 2*margin, so the border on each side is at least the margin and the
\* assertions xmm <= canvas[0] and ymm <= canvas[1] never fail, whatever
\* the tile size in mm, those whose size in pixels rounds up included.
C25_TileRegionFitsPrintablePage ==
    SizeChecked =>
        /\ xmm <= canvas[1] - 2 * margin
        /\ ymm <= canvas[2] - 2 * margin
        /\ ~(pc = "raise" /\ err = AssertionError)

\* C26: for every input with a positive tile size, 0 <= margin < canvas/2
\* on both axes and a portrait or square source image, the grid has
\* XD >= 1 and YD >= 1 once it is derived, so the planner never divides
\* by zero in ratio = XD/YD and never resizes the source to an empty
\* image, and the scheduler has at least one cell.
C26_GridHasAtLeastOneCell ==
    (/\ pc # "mosaic" /\ canvas[1] < canvas[2]
     /\ tilemm > 0 /\ 0 <= margin /\ 2 * margin < canvas[1] /\ 2 * margin < canvas[2]
     /\ newImage.size[1] <= newImage.size[2])
    => /\ XD >= 1 /\ YD >= 1
       /\ ~(pc = "raise" /\ err \in {ZeroDivisionError, ValueError})

====
